---- MODULE Spec2Model ----
(***************************************************************************)
(* The ingestion pipeline of gemini.py (pooled workers, retry with         *)
(* backoff, budget admission, guaranteed cleanup) and of test_files.py     *)
(* (the sequential variant of the same pipeline).                          *)
(*                                                                         *)
(* A file is identified by its position in the discovery order, 1..n.     *)
(* The remote handle genai.upload_file returns for file f is written f.    *)
(***************************************************************************)
EXTENDS Integers, Sequences, FiniteSets, TLC

\* ---------------------------------------------------------------- bounds
\* Files discovered by one run of gemini.py.
MaxFiles == 3

\* Files listed by one run of test_files.py.
MaxSeqFiles == 5

\* Largest --max-workers value tried.
MaxWorkers == 2

\* Largest max_retries argument tried when the retry functions are called
\* on their own.
MaxRetriesArg == 6

\* Longest file content tried when the payload is built on its own.
MaxContentLen == 4

\* Largest max_lines argument tried when the payload is built on its own.
MaxLinesArg == 2

\* Largest max_size_no_truncate argument tried when the payload is built on
\* its own.
MaxSizeArg == 2

\* Characters of a file content; "\n" is the line terminator.
Chars == {"a", "b", "\n"}

\* base_wait_time arguments tried when the retry functions are called on
\* their own.
BaseWaitTimes == {1, 5}

\* Values model.count_tokens may report for a handle.
Costs == {0, 800000, 1200000}

\* ------------------------------------------------------ program constants
\* max_tokens = 2000000 in both upload_files.
max_tokens == 2000000

\* Default max_retries of upload_file_with_retry and count_tokens_with_retry.
DefaultMaxRetries == 5

\* Default base_wait_time of both retry functions.
DefaultBaseWaitTime == 5

\* Default max_lines of upload_file_with_retry.
DefaultMaxLines == 75

\* Default max_size_no_truncate of upload_file_with_retry.
DefaultMaxSizeNoTruncate == 104800

VARIABLES
    prog,               \* which entry point runs: "gemini", "test_files", "retry"
    nfiles,             \* number of discovered files
    max_workers,        \* pool size handed to upload_files
    max_retries,        \* max_retries argument of the retry functions
    base_wait_time,     \* base_wait_time argument of the retry functions
    content,            \* upload_file_with_retry: the text read from the file
    max_lines,          \* upload_file_with_retry: its max_lines argument
    max_size_no_truncate, \* upload_file_with_retry: its max_size_no_truncate
    full_content,       \* upload_file_with_retry: the payload built
    pc,                 \* per file: where its pipeline stands
    attempt,            \* per file: loop variable of the running retry loop
    calls,              \* per file: remote calls made by the running retry call
    sleeps,             \* per file: time.sleep arguments of the running retry call
    temp,               \* per file: the temporary payload file exists
    tokens,             \* per file: file_tokens, the count measured for it
    measured,           \* per file: model.count_tokens calls that returned a count
    created,            \* handles that exist remotely (a store succeeded)
    deleteCalls,        \* per handle: number of genai.delete_file calls
    deleted,            \* handles whose delete succeeded
    idx,                \* upload_files: position of the loop over files/results
    uploaded_files,     \* upload_files: the admitted handles, in order
    skipped_files,      \* upload_files: the skipped names, in order
    total_tokens,       \* upload_files: the consumed total
    mainpc,             \* position of main
    main_uploaded,      \* main: its own variable uploaded_files
    raised,             \* main: an exception is propagating
    cleanupDone,        \* cleanup_files: positions of its input already deleted
    deleteFailed        \* cleanup_files: handles reported "Failed to delete"

vars == <<prog, nfiles, max_workers, max_retries, base_wait_time, content,
          max_lines, max_size_no_truncate, full_content, pc, attempt,
          calls, sleeps, temp, tokens, measured, created, deleteCalls, deleted, idx,
          uploaded_files, skipped_files, total_tokens, mainpc, main_uploaded,
          raised, cleanupDone, deleteFailed>>

payload == <<content, max_lines, max_size_no_truncate, full_content>>

params == <<prog, nfiles, max_workers, max_retries, base_wait_time, payload>>

remote == <<created, deleteCalls, deleted>>

batch == <<idx, uploaded_files, skipped_files, total_tokens>>

mainvars == <<mainpc, main_uploaded, raised, cleanupDone, deleteFailed>>

retryvars == <<attempt, calls, sleeps, temp>>

Files == 1..nfiles

Range(s) == {s[i] : i \in 1..Len(s)}

RECURSIVE Pow2(_)
Pow2(n) == IF n <= 0 THEN 1 ELSE 2 * Pow2(n - 1)

\* ------------------------------------------------------------ initial states
\* No payload built yet.
NoPayload == [header |-> "none", arg |-> 0, body |-> <<>>]

\* The runs of the pipeline leave the text of the files open: it decides
\* nothing but the payload, which is built on its own below.
InitPayloadDefaults ==
    /\ content = <<>>
    /\ max_lines = DefaultMaxLines
    /\ max_size_no_truncate = DefaultMaxSizeNoTruncate
    /\ full_content = NoPayload

InitCommon ==
    /\ InitPayloadDefaults
    /\ pc \in [Files -> {"queued"}]
    /\ attempt = [f \in Files |-> 0]
    /\ calls = [f \in Files |-> 0]
    /\ sleeps = [f \in Files |-> <<>>]
    /\ temp = [f \in Files |-> FALSE]
    /\ tokens = [f \in Files |-> 0]
    /\ measured = [f \in Files |-> 0]
    /\ created = {}
    /\ deleteCalls = [f \in Files |-> 0]
    /\ deleted = {}
    /\ idx = 1
    /\ uploaded_files = <<>>
    /\ skipped_files = <<>>
    /\ total_tokens = 0
    /\ main_uploaded = <<>>
    /\ raised = FALSE
    /\ cleanupDone = {}
    /\ deleteFailed = {}

\* gemini.py main, up to the call of upload_files; process_file calls the
\* retry functions with their defaults.
InitGemini ==
    /\ prog = "gemini"
    /\ nfiles \in 0..MaxFiles
    /\ max_workers \in 1..MaxWorkers
    /\ max_retries = DefaultMaxRetries
    /\ base_wait_time = DefaultBaseWaitTime
    /\ mainpc = "upload_files"
    /\ InitCommon

\* test_files.py main, up to the call of upload_files; it calls the remote
\* service directly, without the retry functions.
InitTestFiles ==
    /\ prog = "test_files"
    /\ nfiles \in 0..MaxSeqFiles
    /\ max_workers = 1
    /\ max_retries = 1
    /\ base_wait_time = 0
    /\ mainpc = "upload_files"
    /\ InitCommon

Init == InitGemini \/ InitTestFiles

\* One direct call of upload_file_with_retry or of count_tokens_with_retry
\* (on an existing handle) with arbitrary max_retries and base_wait_time.
InitRetry ==
    /\ prog = "retry"
    /\ nfiles = 1
    /\ max_workers = 1
    /\ max_retries \in 0..MaxRetriesArg
    /\ base_wait_time \in BaseWaitTimes
    /\ mainpc = "none"
    /\ InitPayloadDefaults
    /\ pc \in [Files -> {"call_upload", "call_count"}]
    /\ attempt = [f \in Files |-> 0]
    /\ calls = [f \in Files |-> 0]
    /\ sleeps = [f \in Files |-> <<>>]
    /\ temp = [f \in Files |-> FALSE]
    /\ tokens = [f \in Files |-> 0]
    /\ measured = [f \in Files |-> 0]
    /\ created = {f \in Files : pc[f] = "call_count"}
    /\ deleteCalls = [f \in Files |-> 0]
    /\ deleted = {}
    /\ idx = 1
    /\ uploaded_files = <<>>
    /\ skipped_files = <<>>
    /\ total_tokens = 0
    /\ main_uploaded = <<>>
    /\ raised = FALSE
    /\ cleanupDone = {}
    /\ deleteFailed = {}

\* ------------------------------------------- gemini.py: the retry functions
\* wait_time = base_wait_time * (2 ** attempt)
WaitTimeDoubledExponent(a) == base_wait_time * Pow2(a + 1)

WaitTime(a) == base_wait_time * Pow2(a)

\* upload_file_with_retry up to its loop: the payload is built and written to
\* a temporary file; range(max_retries) is empty for max_retries <= 0 and the
\* function then falls off its end, returning None.
upload_file_with_retry_enter(f) ==
    /\ temp' = [temp EXCEPT ![f] = TRUE]
    /\ attempt' = [attempt EXCEPT ![f] = 0]
    /\ calls' = [calls EXCEPT ![f] = 0]
    /\ sleeps' = [sleeps EXCEPT ![f] = <<>>]
    /\ pc' = [pc EXCEPT ![f] = IF max_retries > 0 THEN "upload" ELSE "upload_none"]

\* genai.upload_file succeeds: the temporary file is unlinked and the file
\* response returned.
upload_attempt_ok(f) ==
    /\ pc[f] = "upload"
    /\ calls' = [calls EXCEPT ![f] = @ + 1]
    /\ created' = created \cup {f}
    /\ temp' = [temp EXCEPT ![f] = FALSE]
    /\ pc' = [pc EXCEPT ![f] = "upload_returned"]
    /\ UNCHANGED <<params, attempt, sleeps, tokens, measured, deleteCalls, deleted, batch, mainvars>>

\* genai.upload_file raises: sleep and go round again, or on the last round
\* unlink the temporary file and re-raise.
upload_attempt_fail(f) ==
    /\ pc[f] = "upload"
    /\ calls' = [calls EXCEPT ![f] = @ + 1]
    /\ IF attempt[f] < max_retries - 1
       THEN /\ sleeps' = [sleeps EXCEPT ![f] = Append(@, WaitTime(attempt[f]))]
            /\ attempt' = [attempt EXCEPT ![f] = @ + 1]
            /\ UNCHANGED <<temp, pc>>
       ELSE /\ temp' = [temp EXCEPT ![f] = FALSE]
            /\ pc' = [pc EXCEPT ![f] = "upload_raised"]
            /\ UNCHANGED <<sleeps, attempt>>
    /\ UNCHANGED <<params, tokens, measured, remote, batch, mainvars>>

\* count_tokens_with_retry up to its loop.
count_tokens_with_retry_enter(f) ==
    /\ attempt' = [attempt EXCEPT ![f] = 0]
    /\ calls' = [calls EXCEPT ![f] = 0]
    /\ sleeps' = [sleeps EXCEPT ![f] = <<>>]
    /\ pc' = [pc EXCEPT ![f] = IF max_retries > 0 THEN "count" ELSE "count_none"]

\* model.count_tokens succeeds and its total_tokens is returned.
count_attempt_ok_keeps_looping(f) ==
    /\ pc[f] = "count"
    /\ \E c \in Costs : tokens' = [tokens EXCEPT ![f] = c]
    /\ measured' = [measured EXCEPT ![f] = @ + 1]
    /\ calls' = [calls EXCEPT ![f] = @ + 1]
    /\ IF attempt[f] < max_retries - 1
       THEN /\ attempt' = [attempt EXCEPT ![f] = @ + 1]
            /\ UNCHANGED pc
       ELSE /\ pc' = [pc EXCEPT ![f] = "count_returned"]
            /\ UNCHANGED attempt
    /\ UNCHANGED <<params, sleeps, temp, remote, batch, mainvars>>

count_attempt_ok(f) ==
    /\ pc[f] = "count"
    /\ \E c \in Costs : tokens' = [tokens EXCEPT ![f] = c]
    /\ measured' = [measured EXCEPT ![f] = @ + 1]
    /\ calls' = [calls EXCEPT ![f] = @ + 1]
    /\ pc' = [pc EXCEPT ![f] = "count_returned"]
    /\ UNCHANGED <<params, attempt, sleeps, temp, remote, batch, mainvars>>

\* model.count_tokens raises: sleep and go round again, or re-raise.
count_attempt_fail(f) ==
    /\ pc[f] = "count"
    /\ calls' = [calls EXCEPT ![f] = @ + 1]
    /\ IF attempt[f] < max_retries - 1
       THEN /\ sleeps' = [sleeps EXCEPT ![f] = Append(@, WaitTime(attempt[f]))]
            /\ attempt' = [attempt EXCEPT ![f] = @ + 1]
            /\ UNCHANGED pc
       ELSE /\ pc' = [pc EXCEPT ![f] = "count_raised"]
            /\ UNCHANGED <<sleeps, attempt>>
    /\ UNCHANGED <<params, temp, tokens, measured, remote, batch, mainvars>>

\* A direct call of upload_file_with_retry.
call_upload(f) ==
    /\ pc[f] = "call_upload"
    /\ upload_file_with_retry_enter(f)
    /\ UNCHANGED <<params, tokens, measured, remote, batch, mainvars>>

\* A direct call of count_tokens_with_retry.
call_count(f) ==
    /\ pc[f] = "call_count"
    /\ count_tokens_with_retry_enter(f)
    /\ UNCHANGED <<params, temp, tokens, measured, remote, batch, mainvars>>

\* ------------------------------------------------- gemini.py: process_file
\* Files whose process_file is running in a pool worker.
Active == {f \in Files : pc[f] \notin {"queued", "ok", "error"}}

\* pool.map hands the next file of files_to_process to an idle worker, which
\* runs process_file up to the first remote call of upload_file_with_retry.
process_file_start(f) ==
    /\ prog = "gemini"
    /\ mainpc = "upload_files"
    /\ pc[f] = "queued"
    /\ \A g \in Files : g < f => pc[g] # "queued"
    /\ Cardinality(Active) < max_workers
    /\ upload_file_with_retry_enter(f)
    /\ UNCHANGED <<params, tokens, measured, remote, batch, mainvars>>

\* file_response arrived: process_file goes on to count_tokens_with_retry.
process_file_measure(f) ==
    /\ prog = "gemini"
    /\ pc[f] = "upload_returned"
    /\ count_tokens_with_retry_enter(f)
    /\ UNCHANGED <<params, temp, tokens, measured, remote, batch, mainvars>>

\* return file_response, file_tokens, None
process_file_return(f) ==
    /\ prog = "gemini"
    /\ pc[f] = "count_returned"
    /\ pc' = [pc EXCEPT ![f] = "ok"]
    /\ attempt' = [attempt EXCEPT ![f] = 0]
    /\ calls' = [calls EXCEPT ![f] = 0]
    /\ sleeps' = [sleeps EXCEPT ![f] = <<>>]
    /\ UNCHANGED <<params, temp, tokens, measured, remote, batch, mainvars>>

\* except Exception: return None, 0, filepath
process_file_except(f) ==
    /\ prog = "gemini"
    /\ pc[f] \in {"upload_raised", "count_raised"}
    /\ pc' = [pc EXCEPT ![f] = "error"]
    /\ tokens' = [tokens EXCEPT ![f] = 0]
    /\ UNCHANGED measured
    /\ attempt' = [attempt EXCEPT ![f] = 0]
    /\ calls' = [calls EXCEPT ![f] = 0]
    /\ sleeps' = [sleeps EXCEPT ![f] = <<>>]
    /\ UNCHANGED <<params, temp, remote, batch, mainvars>>

\* ------------------------------------------------ upload_files (both files)
\* if total_tokens + file_tokens > max_tokens
WouldExceedIgnoringCost(total, cost) == total > max_tokens

WouldExceedAtCeiling(total, cost) == total + cost >= max_tokens

WouldExceed(total, cost) == total + cost > max_tokens

\* total_tokens += file_tokens
AddTokensOverwrites(total, cost) == cost

AddTokens(total, cost) == total + cost

\* genai.delete_file(name=h) returning normally: the handle is gone remotely.
\* A handle that does not exist (any more) cannot be deleted.
DeleteOk(h) ==
    /\ h \in created \ deleted
    /\ deleteCalls' = [deleteCalls EXCEPT ![h] = @ + 1]
    /\ deleted' = deleted \cup {h}
    /\ UNCHANGED created

\* genai.delete_file(name=h) raising.
DeleteFails(h) ==
    /\ deleteCalls' = [deleteCalls EXCEPT ![h] = @ + 1]
    /\ UNCHANGED <<created, deleted>>

\* --------------------------------------------- gemini.py: upload_files, main
\* The pool has run process_file on every file: pool.map returns results.
pool_map_return_first_done ==
    /\ prog = "gemini"
    /\ mainpc = "upload_files"
    /\ \E f \in Files : pc[f] \in {"ok", "error"}
    /\ mainpc' = "results"
    /\ UNCHANGED <<params, pc, retryvars, tokens, measured, remote, batch,
                   main_uploaded, raised, cleanupDone, deleteFailed>>

pool_map_return ==
    /\ prog = "gemini"
    /\ mainpc = "upload_files"
    /\ \A f \in Files : pc[f] \in {"ok", "error"}
    /\ mainpc' = "results"
    /\ UNCHANGED <<params, pc, retryvars, tokens, measured, remote, batch, main_uploaded,
                   raised, cleanupDone, deleteFailed>>

\* if error_filepath: skipped_files.append(error_filepath)
result_error_admits ==
    /\ prog = "gemini"
    /\ mainpc = "results"
    /\ idx <= nfiles
    /\ pc[idx] = "error"
    /\ uploaded_files' = Append(uploaded_files, idx)
    /\ idx' = idx + 1
    /\ UNCHANGED <<params, pc, retryvars, tokens, measured, remote, skipped_files,
                   total_tokens, mainvars>>

result_error ==
    /\ prog = "gemini"
    /\ mainpc = "results"
    /\ idx <= nfiles
    /\ pc[idx] = "error"
    /\ skipped_files' = Append(skipped_files, idx)
    /\ idx' = idx + 1
    /\ UNCHANGED <<params, pc, retryvars, tokens, measured, remote, uploaded_files,
                   total_tokens, mainvars>>

\* elif over the limit: the name is skipped and the handle deleted inline.
result_reject ==
    /\ prog = "gemini"
    /\ mainpc = "results"
    /\ idx <= nfiles
    /\ pc[idx] = "ok"
    /\ WouldExceed(total_tokens, tokens[idx])
    /\ skipped_files' = Append(skipped_files, idx)
    /\ DeleteOk(idx)
    /\ idx' = idx + 1
    /\ UNCHANGED <<params, pc, retryvars, tokens, measured, uploaded_files, total_tokens,
                   mainvars>>

\* The inline delete raises: nothing in upload_files catches it, so it leaves
\* upload_files and reaches the finally of main, whose uploaded_files is
\* still the empty list it was initialised to.
result_reject_delete_raises ==
    /\ prog = "gemini"
    /\ mainpc = "results"
    /\ idx <= nfiles
    /\ pc[idx] = "ok"
    /\ WouldExceed(total_tokens, tokens[idx])
    /\ skipped_files' = Append(skipped_files, idx)
    /\ DeleteFails(idx)
    /\ raised' = TRUE
    /\ mainpc' = "cleanup"
    /\ UNCHANGED <<params, pc, retryvars, tokens, measured, idx, uploaded_files,
                   total_tokens, main_uploaded, cleanupDone, deleteFailed>>

\* else: the handle is admitted and its tokens added to the total.
result_admit_deletes ==
    /\ prog = "gemini"
    /\ mainpc = "results"
    /\ idx <= nfiles
    /\ pc[idx] = "ok"
    /\ ~WouldExceed(total_tokens, tokens[idx])
    /\ uploaded_files' = Append(uploaded_files, idx)
    /\ total_tokens' = AddTokens(total_tokens, tokens[idx])
    /\ DeleteOk(idx)
    /\ idx' = idx + 1
    /\ UNCHANGED <<params, pc, retryvars, tokens, measured, skipped_files, mainvars>>

result_admit ==
    /\ prog = "gemini"
    /\ mainpc = "results"
    /\ idx <= nfiles
    /\ pc[idx] = "ok"
    /\ ~WouldExceed(total_tokens, tokens[idx])
    /\ uploaded_files' = Append(uploaded_files, idx)
    /\ total_tokens' = AddTokens(total_tokens, tokens[idx])
    /\ idx' = idx + 1
    /\ UNCHANGED <<params, pc, retryvars, tokens, measured, remote, skipped_files, mainvars>>

\* return uploaded_files, skipped_files, total_tokens; main assigns them and
\* goes on to chat_with_model.
upload_files_return ==
    /\ prog = "gemini"
    /\ mainpc = "results"
    /\ idx > nfiles
    /\ main_uploaded' = uploaded_files
    /\ mainpc' = "chat"
    /\ UNCHANGED <<params, pc, retryvars, tokens, measured, remote, batch, raised,
                   cleanupDone, deleteFailed>>

\* -------------------------------------------- test_files.py: upload_files
\* genai.upload_file(path=filepath, display_name=filename) returns.
seq_store_ok ==
    /\ prog = "test_files"
    /\ mainpc = "upload_files"
    /\ idx <= nfiles
    /\ pc[idx] = "queued"
    /\ created' = created \cup {idx}
    /\ pc' = [pc EXCEPT ![idx] = "measure"]
    /\ UNCHANGED <<params, retryvars, tokens, measured, deleteCalls, deleted, batch, mainvars>>

\* genai.upload_file raises: except Exception appends the name to skipped_files.
seq_store_fail ==
    /\ prog = "test_files"
    /\ mainpc = "upload_files"
    /\ idx <= nfiles
    /\ pc[idx] = "queued"
    /\ skipped_files' = Append(skipped_files, idx)
    /\ pc' = [pc EXCEPT ![idx] = "error"]
    /\ idx' = idx + 1
    /\ UNCHANGED <<params, retryvars, tokens, measured, remote, uploaded_files,
                   total_tokens, mainvars>>

\* model.count_tokens returns c: over the limit the name is skipped and the
\* delete is next; otherwise the handle is admitted.
seq_measure_ok(c) ==
    /\ prog = "test_files"
    /\ mainpc = "upload_files"
    /\ idx <= nfiles
    /\ pc[idx] = "measure"
    /\ tokens' = [tokens EXCEPT ![idx] = c]
    /\ measured' = [measured EXCEPT ![idx] = @ + 1]
    /\ IF WouldExceed(total_tokens, c)
       THEN /\ skipped_files' = Append(skipped_files, idx)
            /\ pc' = [pc EXCEPT ![idx] = "delete"]
            /\ UNCHANGED <<idx, uploaded_files, total_tokens>>
       ELSE /\ uploaded_files' = Append(uploaded_files, idx)
            /\ total_tokens' = AddTokens(total_tokens, c)
            /\ pc' = [pc EXCEPT ![idx] = "ok"]
            /\ idx' = idx + 1
            /\ UNCHANGED skipped_files
    /\ UNCHANGED <<params, retryvars, remote, mainvars>>

\* model.count_tokens raises: except Exception appends the name.
seq_measure_fail ==
    /\ prog = "test_files"
    /\ mainpc = "upload_files"
    /\ idx <= nfiles
    /\ pc[idx] = "measure"
    /\ skipped_files' = Append(skipped_files, idx)
    /\ pc' = [pc EXCEPT ![idx] = "error"]
    /\ idx' = idx + 1
    /\ UNCHANGED <<params, retryvars, tokens, measured, remote, uploaded_files,
                   total_tokens, mainvars>>

\* genai.delete_file of the rejected handle returns; continue.
seq_delete_ok ==
    /\ prog = "test_files"
    /\ mainpc = "upload_files"
    /\ idx <= nfiles
    /\ pc[idx] = "delete"
    /\ DeleteOk(idx)
    /\ pc' = [pc EXCEPT ![idx] = "rejected"]
    /\ idx' = idx + 1
    /\ UNCHANGED <<params, retryvars, tokens, measured, uploaded_files, skipped_files,
                   total_tokens, mainvars>>

\* genai.delete_file of the rejected handle raises inside the try: except
\* Exception appends the name to skipped_files a second time.
seq_delete_fail ==
    /\ prog = "test_files"
    /\ mainpc = "upload_files"
    /\ idx <= nfiles
    /\ pc[idx] = "delete"
    /\ DeleteFails(idx)
    /\ skipped_files' = Append(skipped_files, idx)
    /\ pc' = [pc EXCEPT ![idx] = "error"]
    /\ idx' = idx + 1
    /\ UNCHANGED <<params, retryvars, tokens, measured, uploaded_files, total_tokens,
                   mainvars>>

\* return uploaded_files, skipped_files, total_tokens; main queries the model
\* only if uploaded_files is not empty.
seq_upload_files_return ==
    /\ prog = "test_files"
    /\ mainpc = "upload_files"
    /\ idx > nfiles
    /\ main_uploaded' = uploaded_files
    /\ mainpc' = IF uploaded_files # <<>> THEN "chat" ELSE "cleanup"
    /\ UNCHANGED <<params, pc, retryvars, tokens, measured, remote, batch, raised,
                   cleanupDone, deleteFailed>>

\* ------------------------------------------------- conversation and cleanup
\* gemini.py: chat_with_model returns.  test_files.py: chat.send_message
\* returns, or raises into the except Exception around it.
chat_ends ==
    /\ mainpc = "chat"
    /\ mainpc' = "cleanup"
    /\ UNCHANGED <<params, pc, retryvars, tokens, measured, remote, batch, main_uploaded,
                   raised, cleanupDone, deleteFailed>>

\* gemini.py: an exception leaves chat_with_model (model.start_chat is
\* outside its try; KeyboardInterrupt is no Exception): the finally of main
\* runs cleanup_files and the exception goes on.
chat_raises ==
    /\ prog = "gemini"
    /\ mainpc = "chat"
    /\ raised' = TRUE
    /\ mainpc' = "cleanup"
    /\ UNCHANGED <<params, pc, retryvars, tokens, measured, remote, batch, main_uploaded,
                   cleanupDone, deleteFailed>>

\* The handles cleanup_files is called with.
CleanupInputWithRejected ==
    main_uploaded \o SelectSeq(skipped_files, LAMBDA f : f \in created)

CleanupInput == main_uploaded

\* Positions of the input whose delete may run next: gemini.py submits them
\* all to a thread pool, test_files.py deletes in list order.
CleanupNext ==
    LET left == (1..Len(CleanupInput)) \ cleanupDone
    IN IF prog = "gemini" THEN left
       ELSE {i \in left : \A j \in left : i <= j}

\* One delete of cleanup_files returns.
cleanup_delete_ok(i) ==
    /\ mainpc = "cleanup"
    /\ i \in CleanupNext
    /\ DeleteOk(CleanupInput[i])
    /\ cleanupDone' = cleanupDone \cup {i}
    /\ UNCHANGED <<params, pc, retryvars, tokens, measured, batch, mainpc, main_uploaded,
                   raised, deleteFailed>>

\* One delete of cleanup_files raises: the failure is printed, nothing more.
cleanup_delete_fails_aborts(i) ==
    /\ mainpc = "cleanup"
    /\ i \in CleanupNext
    /\ DeleteFails(CleanupInput[i])
    /\ cleanupDone' = cleanupDone \cup {i}
    /\ raised' = TRUE
    /\ mainpc' = "done"
    /\ UNCHANGED <<params, pc, retryvars, tokens, measured, batch, main_uploaded,
                   deleteFailed>>

cleanup_delete_fails(i) ==
    /\ mainpc = "cleanup"
    /\ i \in CleanupNext
    /\ DeleteFails(CleanupInput[i])
    /\ deleteFailed' = deleteFailed \cup {CleanupInput[i]}
    /\ cleanupDone' = cleanupDone \cup {i}
    /\ UNCHANGED <<params, pc, retryvars, tokens, measured, batch, mainpc, main_uploaded,
                   raised>>

\* cleanup_files returns and main ends (by the pending exception, if any).
cleanup_files_return ==
    /\ mainpc = "cleanup"
    /\ cleanupDone = 1..Len(CleanupInput)
    /\ mainpc' = "done"
    /\ UNCHANGED <<params, pc, retryvars, tokens, measured, remote, batch, main_uploaded,
                   raised, cleanupDone, deleteFailed>>

\* ------------------------------- gemini.py: the payload of upload_file_with_retry
\* All texts of at most n characters.
RECURSIVE Texts(_)
Texts(n) ==
    IF n = 0 THEN {<<>>}
    ELSE LET shorter == Texts(n - 1)
         IN shorter \cup {Append(t, c) : t \in {u \in shorter : Len(u) = n - 1}, c \in Chars}

\* content.split('\n'): the pieces between the terminators; a text that ends
\* with a terminator has an empty last piece.
RECURSIVE Split(_)
Split(t) ==
    IF t = <<>> THEN << <<>> >>
    ELSE LET rest == Split(Tail(t))
         IN IF Head(t) = "\n"
            THEN << <<>> >> \o rest
            ELSE << <<Head(t)>> \o Head(rest) >> \o Tail(rest)

\* '\n'.join(pieces)
RECURSIVE Join(_)
Join(pieces) ==
    IF pieces = <<>> THEN <<>>
    ELSE IF Len(pieces) = 1 THEN pieces[1]
    ELSE pieces[1] \o <<"\n">> \o Join(Tail(pieces))

\* lines[-n:] of Python: the last n elements for 0 < n, everything for
\* n = 0 (and for n larger than the list).
LastSlice(lines, n) ==
    IF n <= 0 \/ n >= Len(lines) THEN lines
    ELSE SubSeq(lines, Len(lines) - n + 1, Len(lines))

\* truncated_content = '\n'.join(lines[-max_lines:])
TruncatedContent(t, n) == Join(LastSlice(Split(t), n))

\* full_content: the whole text behind "File Size: <size> bytes" when
\* len(content) <= max_size_no_truncate, else the truncated text behind
\* "Note: This file has been truncated to the last <max_lines> lines."
FullContent(t, n, limit) ==
    IF Len(t) <= limit
    THEN [header |-> "File Size", arg |-> Len(t), body |-> t]
    ELSE [header |-> "Note: truncated to the last", arg |-> n,
          body |-> TruncatedContent(t, n)]

\* One call of upload_file_with_retry up to the writing of the temporary
\* file, on an arbitrary text and arbitrary limits.
InitPrepare ==
    /\ prog = "prepare"
    /\ nfiles = 1
    /\ max_workers = 1
    /\ max_retries = DefaultMaxRetries
    /\ base_wait_time = DefaultBaseWaitTime
    /\ content \in Texts(MaxContentLen)
    /\ max_lines \in 1..MaxLinesArg
    /\ max_size_no_truncate \in 0..MaxSizeArg
    /\ full_content = NoPayload
    /\ mainpc = "none"
    /\ pc = [f \in Files |-> "call_prepare"]
    /\ attempt = [f \in Files |-> 0]
    /\ calls = [f \in Files |-> 0]
    /\ sleeps = [f \in Files |-> <<>>]
    /\ temp = [f \in Files |-> FALSE]
    /\ tokens = [f \in Files |-> 0]
    /\ measured = [f \in Files |-> 0]
    /\ created = {}
    /\ deleteCalls = [f \in Files |-> 0]
    /\ deleted = {}
    /\ idx = 1
    /\ uploaded_files = <<>>
    /\ skipped_files = <<>>
    /\ total_tokens = 0
    /\ main_uploaded = <<>>
    /\ raised = FALSE
    /\ cleanupDone = {}
    /\ deleteFailed = {}

\* The text is read, the payload built and written to the temporary file.
build_payload(f) ==
    /\ pc[f] = "call_prepare"
    /\ full_content' = FullContent(content, max_lines, max_size_no_truncate)
    /\ temp' = [temp EXCEPT ![f] = TRUE]
    /\ pc' = [pc EXCEPT ![f] = "prepared"]
    /\ UNCHANGED <<prog, nfiles, max_workers, max_retries, base_wait_time,
                   content, max_lines, max_size_no_truncate, attempt, calls,
                   sleeps, tokens, measured, remote, batch, mainvars>>

NextPrepare == \E f \in Files : build_payload(f)

SpecPrepare == InitPrepare /\ [][NextPrepare]_vars

\* ------------------------------------------------------------ specifications
Next ==
    \/ \E f \in Files : process_file_start(f)
    \/ \E f \in Files : upload_attempt_ok(f)
    \/ \E f \in Files : upload_attempt_fail(f)
    \/ \E f \in Files : process_file_measure(f)
    \/ \E f \in Files : count_attempt_ok(f)
    \/ \E f \in Files : count_attempt_fail(f)
    \/ \E f \in Files : process_file_return(f)
    \/ \E f \in Files : process_file_except(f)
    \/ pool_map_return
    \/ result_error
    \/ result_reject
    \/ result_reject_delete_raises
    \/ result_admit
    \/ upload_files_return
    \/ seq_store_ok
    \/ seq_store_fail
    \/ \E c \in Costs : seq_measure_ok(c)
    \/ seq_measure_fail
    \/ seq_delete_ok
    \/ seq_delete_fail
    \/ seq_upload_files_return
    \/ chat_ends
    \/ chat_raises
    \/ \E i \in 1..Len(CleanupInput) : cleanup_delete_ok(i)
    \/ \E i \in 1..Len(CleanupInput) : cleanup_delete_fails(i)
    \/ cleanup_files_return

Spec == Init /\ [][Next]_vars

\* The retry functions called on their own.
NextRetry ==
    \/ \E f \in Files : call_upload(f)
    \/ \E f \in Files : upload_attempt_ok(f)
    \/ \E f \in Files : upload_attempt_fail(f)
    \/ \E f \in Files : call_count(f)
    \/ \E f \in Files : count_attempt_ok(f)
    \/ \E f \in Files : count_attempt_fail(f)

\* The run of a program with its scheduling: the operating system keeps
\* running the pool's worker processes, the cleanup threads and main, and
\* every remote call comes back (with a result or an exception), so a step
\* that stays possible is eventually taken.
FairSpec == Spec /\ WF_vars(Next)

SpecRetry == InitRetry /\ [][NextRetry]_vars

\* ------------------------------------------------------------------ claims
Admitted == Range(uploaded_files)

Skipped == Range(skipped_files)

\* Sum of the measured costs of the files of a list.
RECURSIVE SumTokens(_)
SumTokens(s) == IF s = <<>> THEN 0 ELSE tokens[Head(s)] + SumTokens(Tail(s))

\* upload_files has ended, by return or by exception.
UploadFilesEnded == mainpc \in {"chat", "cleanup", "done"}

\* C1: in every reachable state of either upload_files the consumed total
\* total_tokens is at most the ceiling max_tokens.
C1_ConsumedWithinCeiling == total_tokens <= max_tokens

\* C1 witness: the ceiling was reached exactly by admissions and a later
\* measured file was rejected for it, in the pooled program.
C1_Witness ==
    /\ prog = "gemini"
    /\ total_tokens = max_tokens
    /\ Len(uploaded_files) = 2
    /\ \E f \in Skipped : f \in deleted

\* C2: when the program has ended, every handle a store created has been
\* passed to delete at least once.
C2_EveryHandleDeleted ==
    mainpc = "done" => \A h \in created : deleteCalls[h] >= 1

\* C3: a file whose store succeeded and whose measure failed terminally is
\* reported failed only after its handle was passed to delete, and it is
\* never admitted.
C3_MeasureFailureDeletesHandle ==
    \A f \in Files :
        (pc[f] = "error" /\ f \in created) =>
            (deleteCalls[f] >= 1 /\ f \notin Admitted)

\* C4: on every way main reaches cleanup_files, the handles cleanup_files is
\* called with include every handle admitted so far.
C4_CleanupCoversAdmitted ==
    mainpc \in {"cleanup", "done"} => Admitted \subseteq Range(CleanupInput)

\* C5: a failure that concerns one file never aborts the batch: upload_files
\* ends by returning, with an outcome (admitted or skipped) for every file.
C5_BatchNeverAborted ==
    UploadFilesEnded =>
        /\ idx > nfiles
        /\ \A f \in Files : f \in Admitted \cup Skipped

\* C6: no handle is passed to delete more than once; a handle skipped (and
\* deleted inline) is not in the admitted list; and when cleanup_files has
\* returned it has issued exactly one delete for each handle of its input.
C6_NoDoubleDelete ==
    /\ \A h \in Files : deleteCalls[h] <= 1
    /\ Admitted \cap Skipped = {}
    /\ mainpc = "done" => \A h \in Range(CleanupInput) : deleteCalls[h] = 1

\* C6 witness: the run ended with one handle deleted inline for budget and
\* two admitted handles deleted by cleanup_files.
C6_Witness ==
    /\ mainpc = "done"
    /\ Len(main_uploaded) = 2
    /\ \E h \in Skipped : h \in deleted /\ h \notin Range(main_uploaded)
    /\ \A h \in Range(main_uploaded) : h \in deleted

\* C7: the consumed total equals the sum of the measured costs of exactly
\* the admitted files.
C7_ConsumedIsSumOfAdmitted == total_tokens = SumTokens(uploaded_files)

\* C7 witness: two files with positive cost were admitted, one measured file
\* was rejected and one file failed.
C7_Witness ==
    /\ UploadFilesEnded
    /\ Len(uploaded_files) = 2
    /\ \A f \in Admitted : tokens[f] > 0
    /\ \E f \in Skipped : f \in deleted /\ tokens[f] > 0
    /\ \E f \in Skipped : f \notin created

\* The step that takes the admission decision of measured file f: in
\* gemini.py the loop over results reaches an error-free result, in
\* test_files.py model.count_tokens has just returned.
Decision(f) ==
    \/ /\ prog = "gemini"
       /\ mainpc = "results"
       /\ idx = f
       /\ pc[f] = "ok"
       /\ (idx' # idx \/ mainpc' # mainpc)
    \/ /\ prog = "test_files"
       /\ pc[f] = "measure"
       /\ pc'[f] \in {"ok", "delete"}

\* The decision of f admitted it / rejected it.
AdmittedBy(f) ==
    /\ uploaded_files' = Append(uploaded_files, f)
    /\ total_tokens' = total_tokens + tokens'[f]
    /\ skipped_files' = skipped_files

RejectedBy(f) ==
    /\ uploaded_files' = uploaded_files
    /\ total_tokens' = total_tokens
    /\ skipped_files' = Append(skipped_files, f)

\* Five files were stored and measured at 800000 each against the ceiling
\* of 2000000 (costs 10 against a ceiling of 25, on the scale of max_tokens)
\* and every one of them has been decided.
FiveEqualFilesDecided ==
    /\ nfiles = 5
    /\ idx > nfiles
    /\ \A f \in Files : f \in created /\ tokens[f] = 800000

\* C8: a measured file is admitted exactly when total_tokens + cost <=
\* max_tokens at its decision (equality admits), otherwise it is rejected
\* and the total is unchanged, whatever was rejected before it; five files
\* of equal cost 2/5 of the ceiling end with admitted files summing to at
\* most the ceiling and all the others rejected.
C8_AdmitIffFits ==
    /\ [][\A f \in Files :
            Decision(f) =>
                IF total_tokens + tokens'[f] <= max_tokens
                THEN AdmittedBy(f)
                ELSE RejectedBy(f)]_vars
    /\ [](FiveEqualFilesDecided =>
            /\ SumTokens(uploaded_files) <= max_tokens
            /\ Len(uploaded_files) = 2
            /\ \A f \in Files : f \in Admitted \/ f \in Skipped)

\* C8 witness: the five equal files have been decided, two admitted and
\* three rejected, the ceiling not reached.
C8_Witness ==
    /\ FiveEqualFilesDecided
    /\ Len(uploaded_files) = 2
    /\ Len(skipped_files) = 3
    /\ total_tokens = 1600000

\* A call of a retry function has returned a result / ended by raising /
\* fallen off the end of the function (returning None).
Returned(f) == pc[f] \in {"upload_returned", "count_returned"}

Raised(f) == pc[f] \in {"upload_raised", "count_raised"}

ReturnedNone(f) == pc[f] \in {"upload_none", "count_none"}

\* C9: a call of upload_file_with_retry or count_tokens_with_retry that
\* succeeds after k < max_retries failures (k is the loop variable at the
\* success) has made exactly k + 1 remote calls, has slept k times, the
\* i-th sleep being base_wait_time * 2^(i-1), and returns the result.
C9_RetryThenSuccess ==
    \A f \in Files :
        Returned(f) =>
            /\ attempt[f] < max_retries
            /\ calls[f] = attempt[f] + 1
            /\ Len(sleeps[f]) = attempt[f]
            /\ \A i \in 1..Len(sleeps[f]) :
                   sleeps[f][i] = base_wait_time * Pow2(i - 1)
            /\ pc[f] = "upload_returned" => f \in created
            /\ pc[f] = "count_returned" => tokens[f] \in Costs

\* C9 witness: a count succeeded on its fourth attempt after sleeping
\* 5, 10 and 20 seconds.
C9_Witness ==
    \E f \in Files :
        /\ pc[f] = "count_returned"
        /\ calls[f] = 4
        /\ sleeps[f] = <<5, 10, 20>>

\* C10: a call of a retry function in which no attempt succeeded has made
\* exactly max_retries attempts and ended by raising; it never returns
\* normally without a result.
C10_ExhaustedRetriesRaise ==
    \A f \in Files :
        /\ Raised(f) => calls[f] = max_retries
        /\ ~ReturnedNone(f)

\* Occurrences of x in the list s.
Count(s, x) == Cardinality({i \in 1..Len(s) : s[i] = x})

\* C11: cleanup_files attempts a delete for every handle of its input
\* whatever failed before, a failed delete never makes it raise, and the
\* handles it reports as failed are exactly those whose delete failed.
C11_CleanupToleratesFailures ==
    /\ [](mainpc = "done" =>
            /\ cleanupDone = 1..Len(CleanupInput)
            /\ \A h \in Range(CleanupInput) :
                   /\ deleteCalls[h] >= 1
                   /\ h \in deleteFailed <=> h \notin deleted)
    /\ [][mainpc = "cleanup" => raised' = raised]_vars

\* C11 witness: test_files.py ended after its first delete failed and its
\* second delete succeeded.
C11_Witness ==
    /\ prog = "test_files"
    /\ mainpc = "done"
    /\ Len(CleanupInput) >= 2
    /\ CleanupInput[1] \in deleteFailed
    /\ CleanupInput[2] \in deleted

\* upload_files has returned its three results to main.
UploadFilesReturned == UploadFilesEnded /\ idx > nfiles

\* C12: when upload_files returns, every discovered file is exactly once in
\* uploaded_files or exactly once in skipped_files, never in both, so the
\* two lists together are as long as the list of files.
C12_OneOutcomePerFile ==
    UploadFilesReturned =>
        /\ \A f \in Files :
               Count(uploaded_files, f) + Count(skipped_files, f) = 1
        /\ Len(uploaded_files) + Len(skipped_files) = nfiles

\* A step in which model.count_tokens is called for file f.
MeasureStep(f) ==
    \/ measured'[f] # measured[f]
    \/ /\ pc[f] \in {"count", "measure"}
       /\ (calls'[f] # calls[f] \/ pc'[f] # pc[f])

\* C13: for every file, measure is only attempted once its store has
\* succeeded, and only a file whose store and measure both succeeded is
\* decided (admitted, or rejected and deleted inline); in gemini.py its
\* worker has finished before the decision.
C13_StoreMeasureDecideInOrder ==
    /\ [][\A f \in Files :
            /\ MeasureStep(f) => f \in created
            /\ (f \notin Admitted /\ f \in Range(uploaded_files')) =>
                   /\ f \in created
                   /\ measured'[f] >= 1
                   /\ prog = "gemini" => (measured[f] >= 1 /\ pc[f] = "ok")]_vars
    /\ [](\A f \in Files :
            (f \in Admitted \/ deleteCalls[f] >= 1 \/ pc[f] = "delete") =>
                (f \in created /\ measured[f] >= 1))

\* C13 witness: in gemini.py one file was admitted, one was skipped because
\* its store failed and one because its measure failed.
C13_Witness ==
    /\ prog = "gemini"
    /\ Len(uploaded_files) = 1
    /\ \E f \in Skipped : f \notin created
    /\ \E f \in Skipped : f \in created /\ measured[f] = 0

\* The lines of a text as a reader of lines sees them: each ends with its
\* terminator, except a last line the text does not terminate.
RECURSIVE FileLines(_)
FileLines(t) ==
    IF t = <<>> THEN <<>>
    ELSE IF Head(t) = "\n" THEN << <<"\n">> >> \o FileLines(Tail(t))
    ELSE IF Tail(t) = <<>> THEN << <<Head(t)>> >>
    ELSE LET rest == FileLines(Tail(t))
         IN << <<Head(t)>> \o Head(rest) >> \o Tail(rest)

\* The concatenation of a list of lines.
RECURSIVE Concat(_)
Concat(ls) == IF ls = <<>> THEN <<>> ELSE Head(ls) \o Concat(Tail(ls))

\* The last n lines of a text (all of them when it has fewer).
LastLines(t, n) ==
    LET ls == FileLines(t)
    IN IF n >= Len(ls) THEN ls ELSE SubSeq(ls, Len(ls) - n + 1, Len(ls))

\* C14: the payload built for a text longer than max_size_no_truncate holds
\* exactly the last max_lines lines of the text (all of them if it has
\* fewer, and also when the text ends with a terminator) behind the
\* truncation notice naming max_lines.
C14_TruncatedToLastLines ==
    \A f \in Files :
        (pc[f] = "prepared" /\ Len(content) > max_size_no_truncate) =>
            /\ full_content.header = "Note: truncated to the last"
            /\ full_content.arg = max_lines
            /\ full_content.body = Concat(LastLines(content, max_lines))

\* The pipeline of file f has its terminal outcome.
Terminal(f) == pc[f] \in {"ok", "error", "rejected"}

\* C15: under fair scheduling no retry call makes more than max_retries
\* remote calls, every file pipeline reaches its terminal outcome, and the
\* run of upload_files ends by returning its result.
C15_PipelinesTerminateWithResult ==
    /\ [](\A f \in Files : calls[f] <= max_retries)
    /\ <>(\A f \in Files : Terminal(f))
    /\ <>UploadFilesReturned

\* C16: model.count_tokens returns a count at most once per handle: after
\* its first success it is never called again for the handle, the count
\* kept for the handle never changes, and an admission charges exactly it.
C16_FirstMeasureIsAuthoritative ==
    /\ [](\A f \in Files : measured[f] <= 1)
    /\ [][\A f \in Files :
            /\ measured[f] >= 1 => (~MeasureStep(f) /\ tokens'[f] = tokens[f])
            /\ (f \notin Admitted /\ f \in Range(uploaded_files')) =>
                   (measured'[f] = 1 /\ total_tokens' = total_tokens + tokens'[f])]_vars

\* C16 witness: gemini.py ended with only file 2 admitted, charged the
\* 1200000 tokens its single successful measure returned.
C16_Witness ==
    /\ prog = "gemini"
    /\ mainpc = "done"
    /\ uploaded_files = <<2>>
    /\ measured[2] = 1
    /\ tokens[2] = 1200000
    /\ total_tokens = 1200000

\* What the per-file outcomes of files 1..k alone determine, taken in
\* discovery order: the admitted list, the skipped list and the total.
RECURSIVE InOrder(_)
InOrder(k) ==
    IF k = 0 THEN [up |-> <<>>, sk |-> <<>>, tot |-> 0]
    ELSE LET r == InOrder(k - 1)
         IN IF pc[k] = "error" \/ r.tot + tokens[k] > max_tokens
            THEN [r EXCEPT !.sk = Append(@, k)]
            ELSE [up |-> Append(r.up, k), sk |-> r.sk, tot |-> r.tot + tokens[k]]

\* upload_files of gemini.py was left by the exception of an inline delete.
Aborted == raised /\ idx <= nfiles

\* C17: in gemini.py nothing is decided while the pool runs, every worker
\* has finished when the decisions start, and the admitted list, the
\* skipped list and the total are at every point what the outcomes of the
\* files decided so far give in discovery order, whatever the interleaving
\* of the workers was.
C17_DecisionsInDiscoveryOrder ==
    prog = "gemini" =>
        /\ mainpc = "upload_files" =>
               (idx = 1 /\ uploaded_files = <<>> /\ skipped_files = <<>>
                    /\ total_tokens = 0)
        /\ mainpc # "upload_files" => \A f \in Files : pc[f] \in {"ok", "error"}
        /\ (mainpc # "upload_files" /\ ~Aborted) =>
               /\ uploaded_files = InOrder(idx - 1).up
               /\ skipped_files = InOrder(idx - 1).sk
               /\ total_tokens = InOrder(idx - 1).tot
        /\ Aborted =>
               /\ uploaded_files = InOrder(idx - 1).up
               /\ skipped_files = Append(InOrder(idx - 1).sk, idx)
               /\ total_tokens = InOrder(idx - 1).tot

\* C17 witness: two workers, three files measured 1200000, 1200000 and
\* 800000: the first and the third are admitted, the second is skipped.
C17_Witness ==
    /\ prog = "gemini"
    /\ max_workers = 2
    /\ UploadFilesReturned
    /\ uploaded_files = <<1, 3>>
    /\ skipped_files = <<2>>
    /\ total_tokens = max_tokens

\* C18: an admitted handle has been passed to delete only if upload_files
\* returned it to main and the conversation is over (main is in or past
\* cleanup_files): upload_files never deletes a handle it admitted and no
\* delete of an admitted handle precedes the end of the conversation.
C18_AdmittedKeptUntilChatEnds ==
    \A h \in Admitted :
        deleteCalls[h] >= 1 =>
            /\ mainpc \in {"cleanup", "done"}
            /\ UploadFilesReturned
            /\ h \in Range(main_uploaded)

\* C18 witness: the conversation of gemini.py raised and the admitted
\* handles were deleted by cleanup_files afterwards.
C18_Witness ==
    /\ prog = "gemini"
    /\ mainpc = "done"
    /\ raised
    /\ UploadFilesReturned
    /\ Len(uploaded_files) = 2
    /\ \A h \in Admitted : deleteCalls[h] = 1

\* C19: however a call of upload_file_with_retry ends (a result, an
\* exception, or falling off its end), its temporary file is gone.
C19_TempFileRemoved ==
    \A f \in Files :
        pc[f] \in {"upload_returned", "upload_raised", "upload_none"} => ~temp[f]

====
